---- MODULE Spec2Model ----
(***************************************************************************)
(* A model of the two programs of vidvur-mpv-poc:                          *)
(*   test-codecs.js  the batch codec tester (main, testVideo, printReport, *)
(*                   the uncaughtException handler and main().catch);      *)
(*   poc.js          the interactive player (listed in README.md).         *)
(* JavaScript runs every piece of synchronous code to completion, so one   *)
(* action of the model is the code between two awaits: it consumes the     *)
(* answer to the request that was awaited, runs the synchronous code that  *)
(* follows and issues the next request.  A program counter "await_X" says  *)
(* that request X is in flight.  The mpv player and node-mpv are outside   *)
(* the repository: every request may resolve or reject.                    *)
(***************************************************************************)
EXTENDS Integers, Sequences, FiniteSets, TLC

(***************************************************************************)
(* Bounds of the model.                                                    *)
(***************************************************************************)
\* the longest directory listing scanDir returns
MaxFiles == 2
\* the most property reads the player rejects in one run
MaxFaults == 1
\* the most exceptions that reach the uncaughtException handler in one run
MaxCrashes == 1
\* the most keypresses of one run of poc.js
MaxKeys == 2

\* the longest codec string that is canonicalized
MaxLen == 3

(***************************************************************************)
(* JavaScript values.  A string is a sequence of one-character strings.    *)
(***************************************************************************)
Null == [t |-> "null"]
Undefined == [t |-> "undefined"]
Num(n) == [t |-> "number", v |-> n]
Str(s) == [t |-> "string", v |-> s]

\* JavaScript truthiness: null, undefined, 0 and "" are falsy
Truthy(x) ==
  CASE x.t = "null" -> FALSE
    [] x.t = "undefined" -> FALSE
    [] x.t = "number" -> x.v # 0
    [] x.t = "string" -> x.v # <<>>

LowerChar(c) ==
  CASE c = "A" -> "a" [] c = "B" -> "b" [] c = "C" -> "c" [] c = "D" -> "d"
    [] c = "E" -> "e" [] c = "F" -> "f" [] c = "G" -> "g" [] c = "H" -> "h"
    [] c = "I" -> "i" [] c = "J" -> "j" [] c = "K" -> "k" [] c = "L" -> "l"
    [] c = "M" -> "m" [] c = "N" -> "n" [] c = "O" -> "o" [] c = "P" -> "p"
    [] c = "Q" -> "q" [] c = "R" -> "r" [] c = "S" -> "s" [] c = "T" -> "t"
    [] c = "U" -> "u" [] c = "V" -> "v" [] c = "W" -> "w" [] c = "X" -> "x"
    [] c = "Y" -> "y" [] c = "Z" -> "z" [] OTHER -> c

\* String.prototype.toLowerCase
ToLowerCase(s) == [i \in 1..Len(s) |-> LowerChar(s[i])]

\* String.prototype.includes
Includes(hay, needle) ==
  \E i \in 0..(Len(hay) - Len(needle)) : SubSeq(hay, i + 1, i + Len(needle)) = needle

IsDigit(c) == c \in {"0", "1", "2", "3", "4", "5", "6", "7", "8", "9"}

\* unsupported.replace(/(\d)/, '.$1'): a dot goes before the first digit only
DotBeforeDigit(s) ==
  IF \E i \in 1..Len(s) : IsDigit(s[i])
    THEN LET k == CHOOSE i \in 1..Len(s) :
                    /\ IsDigit(s[i])
                    /\ \A j \in 1..(i - 1) : ~IsDigit(s[j])
         IN SubSeq(s, 1, k - 1) \o <<".">> \o SubSeq(s, k, Len(s))
    ELSE s

\* the index of the last occurrence of character c in s, 0 when there is none
LastIndexOf(s, c) ==
  IF \E i \in 1..Len(s) : s[i] = c
    THEN CHOOSE i \in 1..Len(s) : s[i] = c /\ \A j \in (i + 1)..Len(s) : s[j] # c
    ELSE 0

\* path.basename
BaseName(p) == SubSeq(p, LastIndexOf(p, "/") + 1, Len(p))

\* path.extname: from the last dot of the base name, "" when there is no dot
\* or the only dot is the first character of the base name
ExtName(p) ==
  LET b == BaseName(p)
      k == LastIndexOf(b, ".")
  IN IF k <= 1 THEN <<>> ELSE SubSeq(b, k, Len(b))

DigitChar(d) ==
  CASE d = 0 -> "0" [] d = 1 -> "1" [] d = 2 -> "2" [] d = 3 -> "3" [] d = 4 -> "4"
    [] d = 5 -> "5" [] d = 6 -> "6" [] d = 7 -> "7" [] d = 8 -> "8" [] d = 9 -> "9"

RECURSIVE Digits(_)
\* the decimal digits of a natural number
Digits(n) == IF n < 10 THEN <<DigitChar(n)>> ELSE Digits(n \div 10) \o <<DigitChar(n % 10)>>

\* Number.prototype.toFixed(2), for the whole numbers the model uses
ToFixed2(n) == Digits(n) \o <<".", "0", "0">>

\* String(x), which is also how a template literal `${x}` renders x
StringOf(x) ==
  CASE x.t = "null" -> <<"n", "u", "l", "l">>
    [] x.t = "undefined" -> <<"u", "n", "d", "e", "f", "i", "n", "e", "d">>
    [] x.t = "number" -> Digits(x.v)
    [] x.t = "string" -> x.v

(***************************************************************************)
(* test-codecs.js: the rule set.                                           *)
(***************************************************************************)
VIDVUR_UNSUPPORTED_CODECS ==
  << <<"h", "2", "6", "3">>, <<"h", "2", "6", "3", "p">>,
     <<"m", "p", "e", "g", "1", "v", "i", "d", "e", "o">>,
     <<"m", "p", "e", "g", "2", "v", "i", "d", "e", "o">>,
     <<"m", "s", "m", "p", "e", "g", "4", "v", "2">>,
     <<"m", "s", "m", "p", "e", "g", "4", "v", "3">>,
     <<"w", "m", "v", "1">>, <<"w", "m", "v", "2">>, <<"w", "m", "v", "3">>,
     <<"v", "c", "1">>, <<"r", "v", "4", "0">>,
     <<"s", "v", "q", "1">>, <<"s", "v", "q", "3">>,
     <<"c", "i", "n", "e", "p", "a", "k">>,
     <<"i", "n", "d", "e", "o", "3">>, <<"i", "n", "d", "e", "o", "5">> >>

VIDVUR_CONVERSION_FORMATS ==
  << <<".", "m", "o", "v">>, <<".", "m", "k", "v">>, <<".", "a", "v", "i">>,
     <<".", "f", "l", "v">>, <<".", "w", "m", "v">>, <<".", "m", "p", "g">>,
     <<".", "m", "p", "e", "g">>, <<".", "3", "g", "p">> >>

videoExtensions ==
  << <<".", "m", "p", "4">>, <<".", "m", "k", "v">>, <<".", "a", "v", "i">>,
     <<".", "m", "o", "v">>, <<".", "w", "e", "b", "m">>, <<".", "f", "l", "v">>,
     <<".", "w", "m", "v">>, <<".", "m", "p", "g">>, <<".", "m", "p", "e", "g">>,
     <<".", "m", "4", "v">>, <<".", "3", "g", "p">> >>

\* Array.prototype.includes
ArrayIncludes(arr, x) == \E i \in 1..Len(arr) : arr[i] = x

\* a codec test that knows the entries only as they are written
CodecUnsupported_AsWritten(codec) ==
  \E i \in 1..Len(VIDVUR_UNSUPPORTED_CODECS) :
    Includes(ToLowerCase(codec), VIDVUR_UNSUPPORTED_CODECS[i])

\* codecUnsupported of testVideo: some entry, or its dotted form, is a
\* substring of the lowercased codec
CodecUnsupported(codec) ==
  LET codecLower == ToLowerCase(codec)
  IN \E i \in 1..Len(VIDVUR_UNSUPPORTED_CODECS) :
       LET unsupported == VIDVUR_UNSUPPORTED_CODECS[i]
           normalized == DotBeforeDigit(unsupported)
       IN Includes(codecLower, unsupported) \/ Includes(codecLower, normalized)

\* the message of `new Error('Could not detect video codec')`
NoCodecMessage ==
  <<"C", "o", "u", "l", "d", " ", "n", "o", "t", " ", "d", "e", "t", "e", "c", "t", " ",
    "v", "i", "d", "e", "o", " ", "c", "o", "d", "e", "c">>

ReasonCodec ==
  <<"U", "n", "s", "u", "p", "p", "o", "r", "t", "e", "d", " ", "c", "o", "d", "e", "c">>

ReasonContainer ==
  <<"C", "o", "n", "t", "a", "i", "n", "e", "r", " ", "f", "o", "r", "m", "a", "t", " ",
    "r", "e", "q", "u", "i", "r", "e", "s", " ", "c", "o", "n", "v", "e", "r", "s", "i", "o", "n">>

NotAvailable == <<"N", "/", "A">>

\* what a rejected promise carries: an Error with a message, or node-mpv's
\* plain error object, which has no message property
ErrorObj(msg) == [t |-> "error", message |-> msg]
PlainObj == [t |-> "object"]

\* JSON.stringify(error, Object.getOwnPropertyNames(error)) of an object: a
\* non-empty text between braces
JsonOf(error) == <<"{">> \o (IF error.t = "error" THEN <<"m", "e", "s", "s", "a", "g", "e">> ELSE <<"e", "r", "r", "c", "o", "d", "e">>) \o <<"}">>

\* errorMsg without the JSON and String fallbacks: error.message alone
ErrorMessage_MessageOnly(error) ==
  IF error.t = "error" THEN error.message ELSE <<>>

\* errorMsg of testVideo's catch block
ErrorMessage(error) ==
  IF error.t \in {"null", "undefined"}
    THEN StringOf(error)          \* getOwnPropertyNames throws: String(error)
    ELSE IF error.t = "error" /\ error.message # <<>>
      THEN error.message
      ELSE JsonOf(error)

\* a catch block that classifies the file it failed on
FailureResult_Classified(filePath, error) ==
  [filename |-> BaseName(filePath), success |-> FALSE, error |-> ErrorMessage(error),
   wouldConvert |-> FALSE, reason |-> Null]

\* the record testVideo pushes from its catch block
FailureResult(filePath, error) ==
  [filename |-> BaseName(filePath), success |-> FALSE, error |-> ErrorMessage(error)]

\* wouldConvert with && in place of ||
WouldConvert_And(codecStr, ext) ==
  CodecUnsupported(codecStr) /\ ArrayIncludes(VIDVUR_CONVERSION_FORMATS, ext)

\* wouldConvert of testVideo
WouldConvert(codecStr, ext) ==
  CodecUnsupported(codecStr) \/ ArrayIncludes(VIDVUR_CONVERSION_FORMATS, ext)

\* reason with the container tested before the codec
Reason_ContainerFirst(codecStr, ext) ==
  IF WouldConvert(codecStr, ext)
    THEN (IF ArrayIncludes(VIDVUR_CONVERSION_FORMATS, ext)
            THEN Str(ReasonContainer)
            ELSE Str(ReasonCodec))
    ELSE Null

\* reason of testVideo's result
Reason(codecStr, ext) ==
  IF WouldConvert(codecStr, ext)
    THEN (IF CodecUnsupported(codecStr) THEN Str(ReasonCodec) ELSE Str(ReasonContainer))
    ELSE Null

\* the record testVideo pushes when the codec was read
SuccessResult(filePath, lt, c, f, w, h, r, d) ==
  LET ext == ToLowerCase(ExtName(filePath))
  IN [filename |-> BaseName(filePath),
      codec |-> c,
      format |-> f,
      resolution |-> StringOf(w) \o <<"x">> \o StringOf(h),
      fps |-> IF Truthy(r) THEN ToFixed2(r.v) ELSE NotAvailable,
      duration |-> IF Truthy(d) THEN ToFixed2(d.v) ELSE NotAvailable,
      loadTime |-> lt,
      success |-> TRUE,
      wouldConvert |-> WouldConvert(c.v, ext),
      reason |-> Reason(c.v, ext)]

\* testVideo failing the probe when any of the six values is missing
ProbeResult_AllOrNothing(filePath, lt, c, f, w, h, r, d) ==
  IF \E x \in {c, f, w, h, r, d} : ~Truthy(x)
    THEN FailureResult(filePath, ErrorObj(NoCodecMessage))
    ELSE SuccessResult(filePath, lt, c, f, w, h, r, d)

\* lines 90-153 of testVideo: what is pushed once all six reads are back
ProbeResult(filePath, lt, c, f, w, h, r, d) ==
  IF ~Truthy(c)
    THEN FailureResult(filePath, ErrorObj(NoCodecMessage))
    ELSE SuccessResult(filePath, lt, c, f, w, h, r, d)

(***************************************************************************)
(* The environment of test-codecs.js: the directory and the player.        *)
(***************************************************************************)
PathA == <<"d", "/", "a", ".", "m", "p", "4">>
PathB == <<"d", "/", "b", ".", "M", "O", "V">>
PathN == <<"d", "/", "n", ".", "t", "x", "t">>
DirEntries == {PathA, PathB, PathN}

\* the directory listings scanDir may meet, in readdir order
Listings == UNION {[1..n -> DirEntries] : n \in 0..MaxFiles}

\* the test of scanDir's else-if: a video extension, in any letter case
IsVideoFile(p) == ArrayIncludes(videoExtensions, ToLowerCase(ExtName(BaseName(p))))

\* scanDir: the video files of the listing, in listing order
ScanDir(listing) == SelectSeq(listing, IsVideoFile)

\* milliseconds a load may take, as Date.now() measures them
LoadDurations == {0, 7}

\* the setTimeout of testVideo
SettleDelay == 200

\* what a rejected load carries
LoadErrors == {ErrorObj(<<"l", "o", "a", "d">>), PlainObj}

\* what the player answers to each property read when it answers
CodecReplies == {Str(<<"h", "2", "6", "4">>), Str(<<"H", ".", "2", "6", "3">>)}
FormatReplies == {Str(<<"m", "o", "v">>)}
WidthReplies == {Num(640)}
HeightReplies == {Num(480)}
FpsReplies == {Num(30)}
DurationReplies == {Num(10)}

VARIABLES
  \* both programs
  player,      \* the module's player: "null" or "created"
  started,     \* player.start() has resolved
  quitCalls,   \* how many times player.quit() was called
  ueh,         \* invocations of the uncaughtException handler awaiting quit
  exited,      \* the process has ended
  exitCode,    \* the code it ended with
  cause,       \* which of the program's exits ended it ("running": none yet)
  faultsLeft,  \* property reads the player will still reject
  crashesLeft, \* stray exceptions the environment will still raise
  \* test-codecs.js
  pc,          \* where main stands ("off": the program is not the one running)
  files,       \* main's files: the video files scanDir found
  idx,         \* the index in files of the file the for loop is at
  results,     \* the module's results array
  clock,       \* Date.now() - startTime of the running testVideo
  loadTime, codec, format, width, height, fps, duration,   \* testVideo's locals
  reported,    \* printReport has run to its end
  report,      \* what printReport has printed (null: nothing yet)
  mch,         \* the main().catch handler: "idle" or "await_quit"
  \* what the player did, for the statements about it
  loads,       \* how many loads were issued
  rejected,    \* the property reads rejected in the running testVideo
  probes,      \* per finished testVideo: did the load resolve, which reads were rejected
  \* poc.js
  tasks,       \* main (0) and the invocation of the keypress handler per keypress
  keys,        \* how many keys were pressed
  listening,   \* the keypress handler is registered
  currentVideo, loopStart, loopEnd,      \* the module's state
  forwardStepTimes, backwardStepTimes,
  writes,      \* the setProperty calls issued, in order
  lastInfo,    \* the last getVideoInfo that returned: the reads it asked and what came of them
  quitRejected \* which calls of player.quit(), by their order, a keypress handler saw rejected

locals == <<loadTime, codec, format, width, height, fps, duration>>

shared == <<player, started, quitCalls, ueh, exited, exitCode, cause, faultsLeft, crashesLeft>>

batch == <<pc, files, idx, results, clock, loadTime, codec, format, width, height,
           fps, duration, reported, report, mch, loads, rejected, probes>>

poc == <<tasks, keys, listening, currentVideo, loopStart, loopEnd,
         forwardStepTimes, backwardStepTimes, writes, lastInfo, quitRejected>>

vars == <<shared, batch, poc>>

\* A run suffers rejected property reads or stray exceptions, not both.
Budgets == {<<MaxFaults, 0>>, <<0, MaxCrashes>>}

SharedInit ==
  /\ player = "null"
  /\ started = FALSE
  /\ quitCalls = 0
  /\ ueh = 0
  /\ exited = FALSE
  /\ exitCode = 0
  /\ cause = "running"
  /\ \E b \in Budgets : faultsLeft = b[1] /\ crashesLeft = b[2]

BatchIdle ==
  /\ files = <<>>
  /\ idx = 0
  /\ results = <<>>
  /\ clock = 0
  /\ loadTime = 0
  /\ codec = Undefined /\ format = Undefined /\ width = Undefined
  /\ height = Undefined /\ fps = Undefined /\ duration = Undefined
  /\ reported = FALSE
  /\ report = Null
  /\ mch = "idle"
  /\ loads = 0
  /\ rejected = {}
  /\ probes = <<>>

\* what getVideoInfo has gathered: nothing yet
NoInfo ==
  [codec |-> Undefined, width |-> Undefined, height |-> Undefined,
   fps |-> Undefined, duration |-> Undefined, format |-> Undefined]

\* an invocation that has not begun, and one that has returned
IdleTask == [key |-> "none", pc |-> "idle", n |-> 0, info |-> NoInfo, asked |-> {}]
DoneTask == [key |-> "none", pc |-> "done", n |-> 0, info |-> NoInfo, asked |-> {}]

Tasks == 0..MaxKeys

PocIdle ==
  /\ keys = 0
  /\ listening = FALSE
  /\ currentVideo = Null
  /\ loopStart = Null
  /\ loopEnd = Null
  /\ forwardStepTimes = <<>>
  /\ backwardStepTimes = <<>>
  /\ writes = <<>>
  /\ lastInfo = [asked |-> {}, rejected |-> {}, returned |-> Undefined]
  /\ quitRejected = {}

\* test-codecs.js is started
Init ==
  /\ SharedInit
  /\ pc = "main"
  /\ BatchIdle
  /\ tasks = [t \in Tasks |-> IdleTask]
  /\ PocIdle

\* process.exit(code), or the end of the process when nothing is pending
Exit(code, why) == exited' = TRUE /\ exitCode' = code /\ cause' = why

\* the outcomes of one awaited property read: an answer, or a rejection
Outcomes(replies) ==
  {[ok |-> TRUE, v |-> r] : r \in replies}
    \cup (IF faultsLeft > 0 THEN {[ok |-> FALSE]} ELSE {})

\* try { x = await player.getProperty(..) } catch (e) { x = null }
Caught(o) == IF o.ok THEN o.v ELSE Null

\* the bookkeeping of one property read's outcome
Noted(o, name) ==
  /\ faultsLeft' = faultsLeft - (IF o.ok THEN 0 ELSE 1)
  /\ rejected' = IF o.ok THEN rejected ELSE rejected \cup {name}

\* main().catch ending the process with code 0
CatchMain_ExitZero ==
  /\ Exit(0, "fatal")
  /\ UNCHANGED <<mch, quitCalls>>

\* the callback of main().catch (lines 321-331): quit the player if there is
\* one, then exit with 1
CatchMain ==
  IF player = "null"
    THEN /\ Exit(1, "fatal")
         /\ UNCHANGED <<mch, quitCalls>>
    ELSE /\ mch' = "await_quit"
         /\ quitCalls' = quitCalls + 1
         /\ UNCHANGED <<exited, exitCode, cause>>

\* testVideo up to its first await: startTime is taken and the load is issued
BeginProbe(i) ==
  /\ idx' = i
  /\ pc' = "await_load"
  /\ clock' = 0
  /\ loads' = loads + 1

\* testVideo's locals go out of scope
ResetLocals ==
  /\ loadTime' = 0
  /\ codec' = Undefined /\ format' = Undefined /\ width' = Undefined
  /\ height' = Undefined /\ fps' = Undefined /\ duration' = Undefined

(***************************************************************************)
(* printReport (lines 156-234): what it prints, as a record.               *)
(***************************************************************************)
IsSuccess(r) == r.success
IsFailure(r) == ~r.success
\* a conversion test that takes every successful result
IsWouldConvert_Any(r) == TRUE

IsWouldConvert(r) == r.wouldConvert
IsNoConversion(r) == ~r.wouldConvert

\* a reduce whose callback forgets the running sum
SumLoadTime_NoAccumulate(arr) == IF arr = <<>> THEN 0 ELSE arr[Len(arr)].loadTime

\* successful.reduce((sum, r) => sum + r.loadTime, 0)
RECURSIVE SumLoadTime(_)
SumLoadTime(arr) ==
  IF arr = <<>> THEN 0 ELSE SumLoadTime(SubSeq(arr, 1, Len(arr) - 1)) + arr[Len(arr)].loadTime

\* num / den rounded to the nearest whole number, halves upwards
Round(num, den) == (2 * num + den) \div (2 * den)

\* the text of a number of hundredths with two decimals
Hundredths(h) ==
  Digits(h \div 100) \o <<".", DigitChar((h \div 10) % 10), DigitChar(h % 10)>>

\* an average by whole-number division
AvgLoadTime_Truncated(sum, count) == Hundredths(100 * (sum \div count))

\* avgLoadTime.toFixed(2), avgLoadTime being sum / count
AvgLoadTime(sum, count) == Hundredths(Round(100 * sum, count))

Infinity == <<"I", "n", "f", "i", "n", "i", "t", "y">>

\* (k / avgLoadTime).toFixed(0): a division by 0 gives Infinity
SpeedImprovement(k, sum, count) ==
  IF sum = 0 THEN Infinity ELSE Digits(Round(k * count, sum))

\* the loop body of the codec breakdown: codecs[r.codec]++, a new key going
\* to the end of the object
Tally(codecs, key) ==
  IF \E i \in 1..Len(codecs) : codecs[i].codec = key
    THEN [i \in 1..Len(codecs) |->
            IF codecs[i].codec = key
              THEN [codecs[i] EXCEPT !.count = codecs[i].count + 1]
              ELSE codecs[i]]
    ELSE Append(codecs, [codec |-> key, count |-> 1])

\* Object.entries(codecs) after successful.forEach
RECURSIVE CodecCounts(_)
CodecCounts(arr) ==
  IF arr = <<>>
    THEN <<>>
    ELSE Tally(CodecCounts(SubSeq(arr, 1, Len(arr) - 1)), arr[Len(arr)].codec.v)

printReport(rs) ==
  LET successful == SelectSeq(rs, IsSuccess)
      failed == SelectSeq(rs, IsFailure)
      wouldConvert == SelectSeq(successful, IsWouldConvert)
      noConversionNeeded == SelectSeq(successful, IsNoConversion)
      sum == SumLoadTime(successful)
      codecs == CodecCounts(successful)
  IN [total |-> Len(rs),
      successful |-> Len(successful),
      failed |-> Len(failed),
      noConversion |-> Len(successful),
      wouldConvert |-> Len(wouldConvert),
      saved |-> Len(wouldConvert),
      converted |-> [i \in 1..Len(wouldConvert) |->
                       [filename |-> wouldConvert[i].filename,
                        codec |-> wouldConvert[i].codec,
                        reason |-> wouldConvert[i].reason,
                        loadTime |-> wouldConvert[i].loadTime]],
      failures |-> [i \in 1..Len(failed) |->
                      [filename |-> failed[i].filename, error |-> failed[i].error]],
      performance |->
        IF Len(successful) > 0
          THEN [avgLoadTime |-> AvgLoadTime(sum, Len(successful)),
                low |-> SpeedImprovement(5000, sum, Len(successful)),
                high |-> SpeedImprovement(30000, sum, Len(successful))]
          ELSE Null,
      codecs |-> [i \in 1..Len(codecs) |->
                    [codec |-> codecs[i].codec,
                     count |-> codecs[i].count,
                     unsupported |-> CodecUnsupported(codecs[i].codec)]],
      conclusion |->
        IF Len(wouldConvert) > 0 THEN "mpv eliminates conversions"
        ELSE IF Len(successful) > 0 THEN "works in both"
        ELSE "none"]

\* a testVideo that keeps the latest result only
ProbeDone_KeepsLatest(result, loadOk, rej) ==
  /\ results' = <<result>>
  /\ probes' = Append(probes, [loadOk |-> loadOk, rejected |-> rej])
  /\ rejected' = {}
  /\ ResetLocals
  /\ IF idx < Len(files)
       THEN /\ BeginProbe(idx + 1)
            /\ UNCHANGED <<reported, report, quitCalls, mch, exited, exitCode, cause>>
       ELSE /\ UNCHANGED <<idx, clock, loads>>
            /\ \/ /\ reported' = TRUE
                  /\ report' = printReport(results')
                  /\ pc' = "await_quit"
                  /\ quitCalls' = quitCalls + 1
                  /\ UNCHANGED <<mch, exited, exitCode, cause>>
               \/ /\ reported' = FALSE
                  /\ UNCHANGED report
                  /\ pc' = "rejected"
                  /\ CatchMain

\* testVideo has pushed its result and returned: the for loop of main goes to
\* the next file or, after the last one, main prints the report and quits the
\* player (lines 296-304).  An exception escaping printReport rejects main.
ProbeDone(result, loadOk, rej) ==
  /\ results' = Append(results, result)
  /\ probes' = Append(probes, [loadOk |-> loadOk, rejected |-> rej])
  /\ rejected' = {}
  /\ ResetLocals
  /\ IF idx < Len(files)
       THEN /\ BeginProbe(idx + 1)
            /\ UNCHANGED <<reported, report, quitCalls, mch, exited, exitCode, cause>>
       ELSE /\ UNCHANGED <<idx, clock, loads>>
            /\ \/ /\ reported' = TRUE
                  /\ report' = printReport(results')
                  /\ pc' = "await_quit"
                  /\ quitCalls' = quitCalls + 1
                  /\ UNCHANGED <<mch, exited, exitCode, cause>>
               \/ /\ reported' = FALSE
                  /\ UNCHANGED report
                  /\ pc' = "rejected"
                  /\ CatchMain

\* main up to `await player.start()` (lines 236-284)
MainStart ==
  /\ UNCHANGED poc
  /\ pc = "main" /\ ~exited
  /\ \/ \* the directory does not exist: process.exit(1)
        /\ Exit(1, "no-directory")
        /\ UNCHANGED <<pc, files, player, mch, quitCalls>>
     \/ \* readdirSync throws inside scanDir: main rejects
        /\ pc' = "rejected"
        /\ CatchMain
        /\ UNCHANGED <<files, player>>
     \/ \E listing \in Listings :
          /\ files' = ScanDir(listing)
          /\ IF files' = <<>>
               THEN /\ Exit(0, "no-files")
                    /\ UNCHANGED <<pc, player>>
               ELSE /\ player' = "created"
                    /\ pc' = "await_start"
                    /\ UNCHANGED <<exited, exitCode, cause>>
          /\ UNCHANGED <<mch, quitCalls>>
  /\ UNCHANGED <<started, ueh, faultsLeft, crashesLeft>>
  /\ UNCHANGED <<idx, results, clock, locals, reported, report, loads, rejected, probes>>

\* player.start() is back (lines 284-293); on success the loop calls
\* testVideo for the first file
StartReturns ==
  /\ UNCHANGED poc
  /\ pc = "await_start" /\ ~exited
  /\ \/ /\ started' = TRUE
        /\ BeginProbe(1)
        /\ UNCHANGED <<exited, exitCode, cause>>
     \/ /\ Exit(1, "start-failed")
        /\ UNCHANGED <<started, idx, pc, clock, loads>>
  /\ UNCHANGED <<player, quitCalls, ueh, faultsLeft, crashesLeft>>
  /\ UNCHANGED <<files, results, locals, reported, report, mch, rejected, probes>>

\* a loop that does not await testVideo: when the load of one file is back,
\* the load of the next file is issued
LoadReturns_NotAwaited ==
  /\ UNCHANGED poc
  /\ pc = "await_load" /\ ~exited
  /\ idx < Len(files)
  /\ BeginProbe(idx + 1)
  /\ UNCHANGED shared
  /\ UNCHANGED <<files, results, locals, reported, report, mch, rejected, probes>>

\* player.load() is back (lines 51-55 and the catch block 137-153)
LoadReturns ==
  /\ UNCHANGED poc
  /\ pc = "await_load" /\ ~exited
  /\ \/ \E d \in LoadDurations :
          /\ clock' = clock + d
          /\ loadTime' = clock'
          /\ pc' = "await_settle"
          /\ UNCHANGED <<idx, results, codec, format, width, height, fps, duration,
                         reported, report, quitCalls, mch, exited, exitCode, cause, loads, rejected, probes>>
     \/ \E e \in LoadErrors :
          ProbeDone(FailureResult(files[idx], e), FALSE, {})
  /\ UNCHANGED <<player, started, ueh, faultsLeft, crashesLeft, files>>

\* a testVideo that takes the elapsed time after the settle delay
SettleDone_Timed ==
  /\ UNCHANGED poc
  /\ pc = "await_settle" /\ ~exited
  /\ clock' = clock + SettleDelay
  /\ loadTime' = clock'
  /\ pc' = "await_codec"
  /\ UNCHANGED shared
  /\ UNCHANGED <<files, idx, results, codec, format, width, height, fps, duration, reported,
                 report, mch, loads, rejected, probes>>

\* the 200 ms timer fired; the codec is asked for (lines 55-60)
SettleDone ==
  /\ UNCHANGED poc
  /\ pc = "await_settle" /\ ~exited
  /\ clock' = clock + SettleDelay
  /\ pc' = "await_codec"
  /\ UNCHANGED shared
  /\ UNCHANGED <<files, idx, results, locals, reported, report, mch, loads, rejected, probes>>

\* getProperty('video-codec') is back; 'file-format' is asked for (59-65)
CodecReturns ==
  /\ UNCHANGED poc
  /\ pc = "await_codec" /\ ~exited
  /\ \E o \in Outcomes(CodecReplies) :
       /\ codec' = Caught(o)
       /\ Noted(o, "video-codec")
  /\ pc' = "await_format"
  /\ UNCHANGED <<player, started, quitCalls, ueh, exited, exitCode, cause, crashesLeft>>
  /\ UNCHANGED <<files, idx, results, clock, loadTime, format, width, height, fps,
                 duration, reported, report, mch, loads, probes>>

\* getProperty('file-format') is back; 'video-params/w' is asked for (64-70)
FormatReturns ==
  /\ UNCHANGED poc
  /\ pc = "await_format" /\ ~exited
  /\ \E o \in Outcomes(FormatReplies) :
       /\ format' = Caught(o)
       /\ Noted(o, "file-format")
  /\ pc' = "await_width"
  /\ UNCHANGED <<player, started, quitCalls, ueh, exited, exitCode, cause, crashesLeft>>
  /\ UNCHANGED <<files, idx, results, clock, loadTime, codec, width, height, fps,
                 duration, reported, report, mch, loads, probes>>

\* getProperty('video-params/w') is back; 'video-params/h' is asked for (69-75)
WidthReturns ==
  /\ UNCHANGED poc
  /\ pc = "await_width" /\ ~exited
  /\ \E o \in Outcomes(WidthReplies) :
       /\ width' = Caught(o)
       /\ Noted(o, "video-params/w")
  /\ pc' = "await_height"
  /\ UNCHANGED <<player, started, quitCalls, ueh, exited, exitCode, cause, crashesLeft>>
  /\ UNCHANGED <<files, idx, results, clock, loadTime, codec, format, height, fps,
                 duration, reported, report, mch, loads, probes>>

\* getProperty('video-params/h') is back; 'container-fps' is asked for (74-80)
HeightReturns ==
  /\ UNCHANGED poc
  /\ pc = "await_height" /\ ~exited
  /\ \E o \in Outcomes(HeightReplies) :
       /\ height' = Caught(o)
       /\ Noted(o, "video-params/h")
  /\ pc' = "await_fps"
  /\ UNCHANGED <<player, started, quitCalls, ueh, exited, exitCode, cause, crashesLeft>>
  /\ UNCHANGED <<files, idx, results, clock, loadTime, codec, format, width, fps,
                 duration, reported, report, mch, loads, probes>>

\* getProperty('container-fps') is back; 'duration' is asked for (79-85)
FpsReturns ==
  /\ UNCHANGED poc
  /\ pc = "await_fps" /\ ~exited
  /\ \E o \in Outcomes(FpsReplies) :
       /\ fps' = Caught(o)
       /\ Noted(o, "container-fps")
  /\ pc' = "await_duration"
  /\ UNCHANGED <<player, started, quitCalls, ueh, exited, exitCode, cause, crashesLeft>>
  /\ UNCHANGED <<files, idx, results, clock, loadTime, codec, format, width, height,
                 duration, reported, report, mch, loads, probes>>

\* getProperty('duration') is back: the codec check, the classification and
\* the push of the result, or the catch block (lines 84-153)
DurationReturns ==
  /\ UNCHANGED poc
  /\ pc = "await_duration" /\ ~exited
  /\ \E o \in Outcomes(DurationReplies) :
       /\ faultsLeft' = faultsLeft - (IF o.ok THEN 0 ELSE 1)
       /\ ProbeDone(ProbeResult(files[idx], loadTime, codec, format, width, height, fps, Caught(o)),
                    TRUE,
                    IF o.ok THEN rejected ELSE rejected \cup {"duration"})
  /\ UNCHANGED <<player, started, ueh, crashesLeft, files>>

\* the player.quit() of main's cleanup is back (line 304): main resolves and
\* the process ends once nothing is pending, or main rejects
QuitReturns ==
  /\ UNCHANGED poc
  /\ pc = "await_quit" /\ ~exited
  /\ \/ /\ pc' = "done"
        /\ IF ueh > 0
             THEN UNCHANGED <<exited, exitCode, cause>>
             ELSE Exit(0, "completed")
        /\ UNCHANGED <<mch, quitCalls>>
     \/ /\ pc' = "rejected"
        /\ CatchMain
  /\ UNCHANGED <<player, started, ueh, faultsLeft, crashesLeft>>
  /\ UNCHANGED <<files, idx, results, clock, locals, reported, report, loads, rejected, probes>>

\* the player.quit() of main().catch is back, resolved or rejected (323-330)
CatchQuitReturns ==
  /\ UNCHANGED poc
  /\ mch = "await_quit" /\ ~exited
  /\ mch' = "idle"
  /\ Exit(1, "fatal")
  /\ UNCHANGED <<player, started, quitCalls, ueh, faultsLeft, crashesLeft>>
  /\ UNCHANGED <<pc, files, idx, results, clock, locals, reported, report, loads, rejected, probes>>

\* an uncaughtException handler that ends the process at once
HandleUncaught_NoQuit ==
  /\ Exit(1, "uncaught")
  /\ UNCHANGED <<ueh, quitCalls>>

\* the uncaughtException handler (lines 308-318) up to its await: quit the
\* player if there is one, else exit with 1
HandleUncaught ==
  IF player = "null"
    THEN /\ Exit(1, "uncaught")
         /\ UNCHANGED <<ueh, quitCalls>>
    ELSE /\ ueh' = ueh + 1
         /\ quitCalls' = quitCalls + 1
         /\ UNCHANGED <<exited, exitCode, cause>>

\* an exception nobody catches is raised while test-codecs.js waits in the
\* event loop
UncaughtException ==
  /\ UNCHANGED poc
  /\ ~exited /\ crashesLeft > 0
  /\ pc \notin {"off", "main"}
  /\ crashesLeft' = crashesLeft - 1
  /\ HandleUncaught
  /\ UNCHANGED <<player, started, faultsLeft>>
  /\ UNCHANGED batch

\* the player.quit() of an uncaughtException handler is back (312-317)
UncaughtQuitReturns ==
  /\ UNCHANGED poc
  /\ ueh > 0 /\ ~exited
  /\ pc # "off"
  /\ ueh' = ueh - 1
  /\ Exit(1, "uncaught")
  /\ UNCHANGED <<player, started, quitCalls, faultsLeft, crashesLeft>>
  /\ UNCHANGED batch

Next ==
  \/ MainStart
  \/ StartReturns
  \/ LoadReturns
  \/ SettleDone
  \/ CodecReturns
  \/ FormatReturns
  \/ WidthReturns
  \/ HeightReturns
  \/ FpsReturns
  \/ DurationReturns
  \/ QuitReturns
  \/ CatchQuitReturns
  \/ UncaughtException
  \/ UncaughtQuitReturns

Spec == Init /\ [][Next]_vars

(***************************************************************************)
(* poc.js, the interactive player (README.md, lines 298-751).              *)
(* Task 0 is main; task h is the invocation of the async keypress handler  *)
(* for the h-th keypress.  The handler is not serialised: a key pressed    *)
(* while an earlier invocation awaits the player starts a new invocation.  *)
(* A rejection that an invocation does not catch is an unhandled rejection,*)
(* which Node raises as an uncaught exception: the uncaughtException       *)
(* handler runs.                                                           *)
(***************************************************************************)
Keys == {"ctrl-c", "l", "space", "left", "right", "[", "]", "s", "f", "b", "i", "r", "q", "x"}

\* the file poc.js is asked to load
PocPath == PathA

\* the property names getVideoInfo reads, in its order, and the fields they fill
InfoOrder ==
  <<"video-codec", "video-params/w", "video-params/h", "video-params/fps", "duration",
    "file-format">>
InfoField == <<"codec", "width", "height", "fps", "duration", "format">>

\* what the player answers to each of them when it has a value
InfoReply ==
  <<Str(<<"h", "2", "6", "4">>), Num(640), Num(480), Num(30), Num(10), Str(<<"m", "o", "v">>)>>

\* how many properties showDetailedInfo reads
DetailReads == 10

\* values of time-pos, and milliseconds a frame step may take
TimePositions == {3, 8}
StepDurations == {0, 4}

Unknown == <<"U", "n", "k", "n", "o", "w", "n">>
No == Str(<<"n", "o">>)

\* x || d
Or(x, d) == IF Truthy(x) THEN x ELSE d

\* arr.reduce((a, b) => a + b, 0)
RECURSIVE Sum(_)
Sum(arr) == IF arr = <<>> THEN 0 ELSE Sum(SubSeq(arr, 1, Len(arr) - 1)) + arr[Len(arr)]

\* avg (lines 341-344): 0 for an empty array, else the quotient of the sum
\* by the length, kept as a fraction
avg(arr) ==
  IF Len(arr) = 0 THEN [num |-> 0, den |-> 1] ELSE [num |-> Sum(arr), den |-> Len(arr)]

\* the object getVideoInfo returns (lines 421-430)
VideoInfo(filePath, info) ==
  [filename |-> BaseName(filePath),
   fullPath |-> filePath,
   codec |-> Or(info.codec, Str(Unknown)),
   width |-> Or(info.width, Num(0)),
   height |-> Or(info.height, Num(0)),
   fps |-> Or(info.fps, Num(0)),
   duration |-> Or(info.duration, Num(0)),
   format |-> Or(info.format, Str(Unknown))]

MainTask(at) == [key |-> "main", pc |-> at, n |-> 0, info |-> NoInfo, asked |-> {}]
KeyTask(k, at) == [key |-> k, pc |-> at, n |-> 0, info |-> NoInfo, asked |-> {}]

\* poc.js is started
PocInit ==
  /\ SharedInit
  /\ pc = "off"
  /\ BatchIdle
  /\ tasks = [t \in Tasks |-> IF t = 0 THEN MainTask("main") ELSE IdleTask]
  /\ PocIdle

With(t, r) == [tasks EXCEPT ![t] = r]
At(t, at) == [tasks[t] EXCEPT !.pc = at]

\* no handler of uncaught exceptions runs and the process goes on
GoesOn == UNCHANGED <<ueh, quitCalls, exited, exitCode, cause>>

\* invocation t rejects and nobody catches it
Unhandled(t) ==
  /\ tasks' = With(t, DoneTask)
  /\ HandleUncaught

\* a request of a handler is answered: resolved, or rejected if the player
\* still has rejections to give
Resolved == UNCHANGED faultsLeft
Rejected == faultsLeft > 0 /\ faultsLeft' = faultsLeft - 1

\* the answers to one read of getVideoInfo: the value, or a rejection, or no
\* value (a player that has not misbehaved yet may answer without a value,
\* and that is then its only misbehaviour)
InfoOutcomes(n) ==
  {[ok |-> TRUE, v |-> InfoReply[n]]}
    \cup (IF faultsLeft > 0 THEN {[ok |-> FALSE]} ELSE {})
    \cup (IF faultsLeft = MaxFaults /\ faultsLeft > 0 THEN {[ok |-> TRUE, v |-> Null]} ELSE {})

\* main up to `await player.start()` in initialize (lines 588-589, 483-501)
PocStart ==
  /\ pc = "off" /\ ~exited
  /\ tasks[0].pc = "main"
  /\ player' = "created"
  /\ tasks' = With(0, MainTask("await_start"))
  /\ UNCHANGED <<started, quitCalls, ueh, exited, exitCode, cause, faultsLeft, crashesLeft>>
  /\ UNCHANGED batch
  /\ UNCHANGED <<keys, listening, currentVideo, loopStart, loopEnd, forwardStepTimes,
                 backwardStepTimes, writes, lastInfo, quitRejected>>

\* player.start() is back: initialize returns, main registers the keypress
\* handler and loads the file named on the command line, if any (502-724)
PocStartReturns ==
  /\ pc = "off" /\ ~exited
  /\ tasks[0].pc = "await_start"
  /\ \/ /\ started' = TRUE
        /\ listening' = TRUE
        /\ \/ tasks' = With(0, DoneTask)
           \/ tasks' = With(0, MainTask("await_load"))
        /\ UNCHANGED <<exited, exitCode, cause>>
     \/ /\ Exit(1, "start-failed")
        /\ UNCHANGED <<started, listening, tasks>>
  /\ UNCHANGED <<player, quitCalls, ueh, faultsLeft, crashesLeft>>
  /\ UNCHANGED batch
  /\ UNCHANGED <<keys, currentVideo, loopStart, loopEnd, forwardStepTimes,
                 backwardStepTimes, writes, lastInfo, quitRejected>>

\* key k is pressed: the handler runs up to its first await (lines 606-711)
KeypressOf(k) ==
  /\ pc = "off" /\ ~exited
  /\ listening /\ keys < MaxKeys
  /\ keys' = keys + 1
  /\ LET h == keys + 1 IN
       \/ /\ k = "ctrl-c" \/ (k = "q" /\ currentVideo # Null)
          /\ tasks' = With(h, [KeyTask(k, "await_quit") EXCEPT !.n = quitCalls + 1])
          /\ quitCalls' = quitCalls + 1
          /\ UNCHANGED <<loopStart, loopEnd, forwardStepTimes, backwardStepTimes, writes>>
       \/ /\ k = "l"
          /\ tasks' = With(h, KeyTask(k, "await_prompt"))
          /\ UNCHANGED <<quitCalls, loopStart, loopEnd, forwardStepTimes, backwardStepTimes,
                         writes>>
       \/ /\ k \notin {"ctrl-c", "l"}
          /\ currentVideo = Null \/ k = "x"
          /\ tasks' = With(h, DoneTask)
          /\ UNCHANGED <<quitCalls, loopStart, loopEnd, forwardStepTimes, backwardStepTimes,
                         writes>>
       \/ /\ k \in {"space", "left", "right", "[", "]", "s", "f", "i"}
          /\ currentVideo # Null
          /\ tasks' = With(h, CASE k \in {"space", "left", "right"} -> KeyTask(k, "await_cmd")
                                [] k \in {"[", "]"} -> KeyTask(k, "await_step")
                                [] k \in {"s", "f"} -> KeyTask(k, "await_timepos")
                                [] k = "i" -> [KeyTask(k, "await_detail") EXCEPT !.n = 1])
          /\ UNCHANGED <<quitCalls, loopStart, loopEnd, forwardStepTimes, backwardStepTimes,
                         writes>>
       \/ /\ k = "b"
          /\ currentVideo # Null
          /\ loopStart' = Null
          /\ loopEnd' = Null
          /\ writes' = Append(writes, [name |-> "ab-loop-a", value |-> No])
          /\ tasks' = With(h, KeyTask(k, "await_set_a"))
          /\ UNCHANGED <<quitCalls, forwardStepTimes, backwardStepTimes>>
       \/ /\ k = "r"
          /\ currentVideo # Null
          /\ forwardStepTimes' = <<>>
          /\ backwardStepTimes' = <<>>
          /\ tasks' = With(h, DoneTask)
          /\ UNCHANGED <<quitCalls, loopStart, loopEnd, writes>>
  /\ UNCHANGED <<player, started, ueh, exited, exitCode, cause, faultsLeft, crashesLeft>>
  /\ UNCHANGED batch
  /\ UNCHANGED <<listening, currentVideo, lastInfo, quitRejected>>

\* a key is pressed
Keypress == \E k \in Keys : KeypressOf(k)

\* promptForFile is back: loadVideo is called for a file that exists (615-623)
PromptReturns ==
  /\ pc = "off" /\ ~exited
  /\ \E t \in Tasks :
       /\ tasks[t].pc = "await_prompt"
       /\ \/ tasks' = With(t, At(t, "await_load"))
          \/ tasks' = With(t, DoneTask)
  /\ UNCHANGED shared
  /\ UNCHANGED batch
  /\ UNCHANGED <<keys, listening, currentVideo, loopStart, loopEnd, forwardStepTimes,
                 backwardStepTimes, writes, lastInfo, quitRejected>>

\* player.load() of loadVideo is back: getVideoInfo asks for the codec, or
\* the catch block returns false (lines 438-455, 412-414)
PocLoadReturns ==
  /\ pc = "off" /\ ~exited
  /\ \E t \in Tasks :
       /\ tasks[t].pc = "await_load"
       /\ \/ tasks' = With(t, [tasks[t] EXCEPT !.pc = "await_info", !.n = 1,
                                               !.asked = {InfoOrder[1]}])
          \/ tasks' = With(t, DoneTask)
  /\ UNCHANGED shared
  /\ UNCHANGED batch
  /\ UNCHANGED <<keys, listening, currentVideo, loopStart, loopEnd, forwardStepTimes,
                 backwardStepTimes, writes, lastInfo, quitRejected>>

\* one getProperty of getVideoInfo is back: the next one is asked for; after
\* the last one the info object is returned and loadVideo stores it in
\* currentVideo; a rejection makes getVideoInfo return null (lines 412-450)
InfoReturns ==
  /\ pc = "off" /\ ~exited
  /\ \E t \in Tasks :
       /\ tasks[t].pc = "await_info"
       /\ \E o \in InfoOutcomes(tasks[t].n) :
            LET n == tasks[t].n
            IN /\ faultsLeft' = (IF ~o.ok THEN faultsLeft - 1
                                 ELSE IF o.v = Null THEN 0 ELSE faultsLeft)
               /\ IF o.ok
                    THEN LET info2 == [tasks[t].info EXCEPT ![InfoField[n]] = o.v] IN
                         IF n < Len(InfoOrder)
                           THEN /\ tasks' = With(t, [tasks[t] EXCEPT
                                       !.n = n + 1, !.info = info2,
                                       !.asked = tasks[t].asked \cup {InfoOrder[n + 1]}])
                                /\ UNCHANGED <<currentVideo, lastInfo>>
                           ELSE /\ currentVideo' = VideoInfo(PocPath, info2)
                                /\ lastInfo' = [asked |-> tasks[t].asked, rejected |-> {},
                                                returned |-> currentVideo']
                                /\ tasks' = With(t, DoneTask)
                    ELSE /\ currentVideo' = Null
                         /\ lastInfo' = [asked |-> tasks[t].asked, rejected |-> {InfoOrder[n]},
                                         returned |-> Null]
                         /\ tasks' = With(t, DoneTask)
  /\ UNCHANGED <<player, started, quitCalls, ueh, exited, exitCode, cause, crashesLeft>>
  /\ UNCHANGED batch
  /\ UNCHANGED <<keys, listening, loopStart, loopEnd, forwardStepTimes, backwardStepTimes,
                 writes, quitRejected>>

\* togglePause or seek is back (lines 629-644)
CommandReturns ==
  /\ pc = "off" /\ ~exited
  /\ \E t \in Tasks :
       /\ tasks[t].pc = "await_cmd"
       /\ \/ /\ Resolved
             /\ tasks' = With(t, DoneTask)
             /\ GoesOn
          \/ /\ Rejected
             /\ Unhandled(t)
  /\ UNCHANGED <<player, started, crashesLeft>>
  /\ UNCHANGED batch
  /\ UNCHANGED <<keys, listening, currentVideo, loopStart, loopEnd, forwardStepTimes,
                 backwardStepTimes, writes, lastInfo, quitRejected>>

\* a frameStep that pushes its sample to both arrays
StepReturns_BothArrays ==
  /\ pc = "off" /\ ~exited
  /\ \E t \in Tasks :
       /\ tasks[t].pc = "await_step"
       /\ \/ /\ Resolved
             /\ \E elapsed \in StepDurations :
                  IF tasks[t].key = "]"
                    THEN /\ forwardStepTimes' = Append(forwardStepTimes, elapsed)
                         /\ backwardStepTimes' = Append(backwardStepTimes, elapsed)
                    ELSE /\ backwardStepTimes' = Append(backwardStepTimes, elapsed)
                         /\ UNCHANGED forwardStepTimes
          \/ /\ Rejected
             /\ UNCHANGED <<forwardStepTimes, backwardStepTimes>>
       /\ tasks' = With(t, DoneTask)
  /\ UNCHANGED <<player, started, quitCalls, ueh, exited, exitCode, cause, crashesLeft>>
  /\ UNCHANGED batch
  /\ UNCHANGED <<keys, listening, currentVideo, loopStart, loopEnd, writes, lastInfo,
                 quitRejected>>

\* the command of frameStep is back (lines 458-480)
StepReturns ==
  /\ pc = "off" /\ ~exited
  /\ \E t \in Tasks :
       /\ tasks[t].pc = "await_step"
       /\ \/ /\ Resolved
             /\ \E elapsed \in StepDurations :
                  IF tasks[t].key = "]"
                    THEN /\ forwardStepTimes' = Append(forwardStepTimes, elapsed)
                         /\ UNCHANGED backwardStepTimes
                    ELSE /\ backwardStepTimes' = Append(backwardStepTimes, elapsed)
                         /\ UNCHANGED forwardStepTimes
          \/ /\ Rejected
             /\ UNCHANGED <<forwardStepTimes, backwardStepTimes>>
       /\ tasks' = With(t, DoneTask)
  /\ UNCHANGED <<player, started, quitCalls, ueh, exited, exitCode, cause, crashesLeft>>
  /\ UNCHANGED batch
  /\ UNCHANGED <<keys, listening, currentVideo, loopStart, loopEnd, writes, lastInfo,
                 quitRejected>>

\* 's' and 'f' testing the point they have just set, not the other one
TimePosReturns_TestsOwnPoint ==
  /\ pc = "off" /\ ~exited
  /\ \E t \in Tasks :
       /\ tasks[t].pc = "await_timepos"
       /\ \/ /\ Resolved
             /\ GoesOn
             /\ \E v \in TimePositions :
                  /\ IF tasks[t].key = "s"
                       THEN loopStart' = Num(v) /\ UNCHANGED loopEnd
                       ELSE loopEnd' = Num(v) /\ UNCHANGED loopStart
                  /\ IF (IF tasks[t].key = "s" THEN loopStart' ELSE loopEnd') # Null
                       THEN /\ writes' = Append(writes, [name |-> "ab-loop-a", value |-> loopStart'])
                            /\ tasks' = With(t, At(t, "await_set_a"))
                       ELSE /\ UNCHANGED writes
                            /\ tasks' = With(t, DoneTask)
          \/ /\ Rejected
             /\ Unhandled(t)
             /\ UNCHANGED <<loopStart, loopEnd, writes>>
  /\ UNCHANGED <<player, started, crashesLeft>>
  /\ UNCHANGED batch
  /\ UNCHANGED <<keys, listening, currentVideo, forwardStepTimes, backwardStepTimes, lastInfo,
                 quitRejected>>

\* getProperty('time-pos') of 's' or 'f' is back: the loop point is set and,
\* if the other point is not null, ab-loop-a is written (lines 657-675)
TimePosReturns ==
  /\ pc = "off" /\ ~exited
  /\ \E t \in Tasks :
       /\ tasks[t].pc = "await_timepos"
       /\ \/ /\ Resolved
             /\ GoesOn
             /\ \E v \in TimePositions :
                  /\ IF tasks[t].key = "s"
                       THEN loopStart' = Num(v) /\ UNCHANGED loopEnd
                       ELSE loopEnd' = Num(v) /\ UNCHANGED loopStart
                  /\ IF (IF tasks[t].key = "s" THEN loopEnd ELSE loopStart) # Null
                       THEN /\ writes' = Append(writes, [name |-> "ab-loop-a", value |-> loopStart'])
                            /\ tasks' = With(t, At(t, "await_set_a"))
                       ELSE /\ UNCHANGED writes
                            /\ tasks' = With(t, DoneTask)
          \/ /\ Rejected
             /\ Unhandled(t)
             /\ UNCHANGED <<loopStart, loopEnd, writes>>
  /\ UNCHANGED <<player, started, crashesLeft>>
  /\ UNCHANGED batch
  /\ UNCHANGED <<keys, listening, currentVideo, forwardStepTimes, backwardStepTimes, lastInfo,
                 quitRejected>>

\* setProperty('ab-loop-a') is back: ab-loop-b is written, with 'no' for 'b'
\* and with what loopEnd holds now for 's' and 'f' (lines 661-662, 672-673,
\* 682-683)
SetAReturns ==
  /\ pc = "off" /\ ~exited
  /\ \E t \in Tasks :
       /\ tasks[t].pc = "await_set_a"
       /\ \/ /\ Resolved
             /\ GoesOn
             /\ writes' = Append(writes, [name |-> "ab-loop-b",
                                          value |-> IF tasks[t].key = "b" THEN No ELSE loopEnd])
             /\ tasks' = With(t, At(t, "await_set_b"))
          \/ /\ Rejected
             /\ Unhandled(t)
             /\ UNCHANGED writes
  /\ UNCHANGED <<player, started, crashesLeft>>
  /\ UNCHANGED batch
  /\ UNCHANGED <<keys, listening, currentVideo, loopStart, loopEnd, forwardStepTimes,
                 backwardStepTimes, lastInfo, quitRejected>>

\* setProperty('ab-loop-b') is back (lines 662-663, 673-674, 683-684)
SetBReturns ==
  /\ pc = "off" /\ ~exited
  /\ \E t \in Tasks :
       /\ tasks[t].pc = "await_set_b"
       /\ \/ /\ Resolved
             /\ GoesOn
             /\ tasks' = With(t, DoneTask)
          \/ /\ Rejected
             /\ Unhandled(t)
  /\ UNCHANGED <<player, started, crashesLeft>>
  /\ UNCHANGED batch
  /\ UNCHANGED <<keys, listening, currentVideo, loopStart, loopEnd, forwardStepTimes,
                 backwardStepTimes, writes, lastInfo, quitRejected>>

\* one getProperty of showDetailedInfo is back: the next one is asked for;
\* after the last one, or after a rejection, Enter is waited for (542-585)
DetailReturns ==
  /\ pc = "off" /\ ~exited
  /\ \E t \in Tasks :
       /\ tasks[t].pc = "await_detail"
       /\ \/ /\ Resolved
             /\ IF tasks[t].n < DetailReads
                  THEN tasks' = With(t, [tasks[t] EXCEPT !.n = tasks[t].n + 1])
                  ELSE tasks' = With(t, [tasks[t] EXCEPT !.pc = "await_enter", !.n = 0])
          \/ /\ Rejected
             /\ tasks' = With(t, [tasks[t] EXCEPT !.pc = "await_enter", !.n = 0])
  /\ UNCHANGED <<player, started, quitCalls, ueh, exited, exitCode, cause, crashesLeft>>
  /\ UNCHANGED batch
  /\ UNCHANGED <<keys, listening, currentVideo, loopStart, loopEnd, forwardStepTimes,
                 backwardStepTimes, writes, lastInfo, quitRejected>>

\* Enter was pressed at the end of showDetailedInfo (lines 575-584, 689-692)
EnterReturns ==
  /\ pc = "off" /\ ~exited
  /\ \E t \in Tasks :
       /\ tasks[t].pc = "await_enter"
       /\ tasks' = With(t, DoneTask)
  /\ UNCHANGED shared
  /\ UNCHANGED batch
  /\ UNCHANGED <<keys, listening, currentVideo, loopStart, loopEnd, forwardStepTimes,
                 backwardStepTimes, writes, lastInfo, quitRejected>>

\* player.quit() of Ctrl-C or 'q' is back: process.exit(), or the rejection
\* leaves the handler uncaught (lines 607-611, 706-710)
PocQuitReturns ==
  /\ pc = "off" /\ ~exited
  /\ \E t \in Tasks :
       /\ tasks[t].pc = "await_quit"
       /\ \/ /\ Exit(0, "quit")
             /\ tasks' = With(t, DoneTask)
             /\ UNCHANGED <<ueh, quitCalls, quitRejected>>
          \/ /\ Unhandled(t)
             /\ quitRejected' = quitRejected \cup {tasks[t].n}
  /\ UNCHANGED <<player, started, faultsLeft, crashesLeft>>
  /\ UNCHANGED batch
  /\ UNCHANGED <<keys, listening, currentVideo, loopStart, loopEnd, forwardStepTimes,
                 backwardStepTimes, writes, lastInfo>>

\* an exception nobody catches is raised while poc.js waits in the event
\* loop (lines 728-738)
PocUncaughtException ==
  /\ pc = "off" /\ ~exited
  /\ crashesLeft > 0
  /\ tasks[0].pc # "main"
  /\ crashesLeft' = crashesLeft - 1
  /\ HandleUncaught
  /\ UNCHANGED <<player, started, faultsLeft>>
  /\ UNCHANGED batch
  /\ UNCHANGED poc

\* the player.quit() of an uncaughtException handler is back (732-737)
PocUncaughtQuitReturns ==
  /\ pc = "off" /\ ~exited
  /\ ueh > 0
  /\ ueh' = ueh - 1
  /\ Exit(1, "uncaught")
  /\ UNCHANGED <<player, started, quitCalls, faultsLeft, crashesLeft>>
  /\ UNCHANGED batch
  /\ UNCHANGED poc

PocNext ==
  \/ PocStart
  \/ PocStartReturns
  \/ Keypress
  \/ PromptReturns
  \/ PocLoadReturns
  \/ InfoReturns
  \/ CommandReturns
  \/ StepReturns
  \/ TimePosReturns
  \/ SetAReturns
  \/ SetBReturns
  \/ DetailReturns
  \/ EnterReturns
  \/ PocQuitReturns
  \/ PocUncaughtException
  \/ PocUncaughtQuitReturns

PocSpec == PocInit /\ [][PocNext]_vars

\* either program
AllSpec == (Init \/ PocInit) /\ [][Next \/ PocNext]_vars

(***************************************************************************)
(* The loop keys of poc.js on their own: a video is loaded, earlier 's',   *)
(* 'f' and 'b' handlers have run to their end and left the loop points as  *)
(* they are, and the player answers every request.  From there 's', 'f'    *)
(* and 'b' are pressed, a key possibly while an earlier handler awaits.    *)
(***************************************************************************)
\* what getVideoInfo returns when every read has its value
LoadedVideo ==
  VideoInfo(PocPath, [f \in DOMAIN NoInfo |->
                        InfoReply[CHOOSE n \in 1..Len(InfoField) : InfoField[n] = f]])

LoopInit ==
  /\ player = "created" /\ started = TRUE /\ quitCalls = 0 /\ ueh = 0
  /\ exited = FALSE /\ exitCode = 0 /\ cause = "running"
  /\ faultsLeft = 0 /\ crashesLeft = 0
  /\ pc = "off"
  /\ BatchIdle
  /\ tasks = [t \in Tasks |-> IF t = 0 THEN DoneTask ELSE IdleTask]
  /\ keys = 0
  /\ listening = TRUE
  /\ currentVideo = LoadedVideo
  /\ loopStart \in {Null} \cup {Num(v) : v \in TimePositions}
  /\ loopEnd \in {Null} \cup {Num(v) : v \in TimePositions}
  /\ forwardStepTimes = <<>> /\ backwardStepTimes = <<>>
  /\ writes = <<>>
  /\ lastInfo = [asked |-> {InfoOrder[n] : n \in 1..Len(InfoOrder)}, rejected |-> {},
                 returned |-> LoadedVideo]
  /\ quitRejected = {}

\* 's', 'f' or 'b' is pressed
LoopKeypress == \E k \in {"s", "f", "b"} : KeypressOf(k)

LoopNext ==
  \/ LoopKeypress
  \/ TimePosReturns
  \/ SetAReturns
  \/ SetBReturns

LoopSpec == LoopInit /\ [][LoopNext]_vars

(***************************************************************************)
(* test-codecs.js with a player that may stop answering.  Whatever can     *)
(* happen does happen in the end (the timer fires, an answer that is on    *)
(* its way arrives), unless the player has gone silent on the request      *)
(* testVideo awaits: the code sets no timeout on any await.                *)
(***************************************************************************)
\* the player will never answer the load or the property read that
\* testVideo awaits (lines 51, 60-85)
PlayerStopsAnswering ==
  /\ ~exited
  /\ pc \in {"await_load", "await_codec", "await_format", "await_width", "await_height",
             "await_fps", "await_duration"}
  /\ pc' = "hung"
  /\ UNCHANGED <<files, idx, results, clock, locals, reported, report, mch, loads, rejected,
                 probes>>
  /\ UNCHANGED shared
  /\ UNCHANGED poc

LiveNext == Next \/ PlayerStopsAnswering

LiveSpec == Init /\ [][LiveNext]_vars /\ WF_vars(Next)

(***************************************************************************)
(* test-codecs.js with a user who may interrupt it.  The program registers *)
(* handlers for uncaughtException and for the rejection of main() only: an *)
(* interrupt signal has Node's default disposition, which ends the process *)
(* at once and runs no code of the program.                                *)
(***************************************************************************)
\* the user interrupts test-codecs.js (no handler: lines 307-331)
UserInterrupt ==
  /\ pc # "off" /\ ~exited
  /\ Exit(130, "interrupted")
  /\ UNCHANGED <<player, started, quitCalls, ueh, faultsLeft, crashesLeft>>
  /\ UNCHANGED batch
  /\ UNCHANGED poc

InterruptNext == Next \/ UserInterrupt

InterruptSpec == Init /\ [][InterruptNext]_vars

(***************************************************************************)
(* The rules of test-codecs.js on their own: testVideo's classification    *)
(* and printReport applied to what a player may answer, whatever the       *)
(* player, and the normalisation of a codec name applied to codec strings. *)
(***************************************************************************)
\* the codecs a player may answer with
CodecInputs ==
  {Str(<<"h", "2", "6", "4">>), Str(<<"h", "2", "6", "3">>), Str(<<"H", "2", "6", "3">>),
   Str(<<"h", ".", "2", "6", "3">>), Str(<<"H", ".", "2", "6", "3">>)}

\* the codec strings that are canonicalized
CanonAlphabet == {"h", "H", "2", "."}
CanonInputs == UNION {[1..n -> CanonAlphabet] : n \in 0..MaxLen}

\* lowercasing (line 97) followed by the dot before the first digit (line 100)
Canonical(c) == DotBeforeDigit(ToLowerCase(c))

RulesInit ==
  /\ player = "null" /\ started = FALSE /\ quitCalls = 0 /\ ueh = 0
  /\ exited = FALSE /\ exitCode = 0 /\ cause = "running"
  /\ faultsLeft = 0 /\ crashesLeft = 0
  /\ pc = "rules"
  /\ BatchIdle
  /\ tasks = [t \in Tasks |-> IdleTask]
  /\ PocIdle

\* testVideo for one more file, from the load to the pushed result (43-154)
Probe ==
  /\ pc = "rules"
  /\ Len(results) < MaxFiles
  /\ \E filePath \in {PathA, PathB} :
       /\ files' = Append(files, filePath)
       /\ \/ \E lt \in LoadDurations, c \in CodecInputs \cup {Null} :
               /\ results' = Append(results,
                     ProbeResult(filePath, lt, c, Str(<<"m", "o", "v">>), Num(640), Num(480),
                                 Num(30), Num(10)))
               /\ probes' = Append(probes,
                     [loadOk |-> TRUE,
                      rejected |-> IF c = Null THEN {"video-codec"} ELSE {}])
          \/ \E e \in LoadErrors :
               /\ results' = Append(results, FailureResult(filePath, e))
               /\ probes' = Append(probes, [loadOk |-> FALSE, rejected |-> {}])
  /\ idx' = idx + 1
  /\ loads' = loads + 1
  /\ UNCHANGED <<pc, clock, locals, reported, report, mch, rejected>>
  /\ UNCHANGED shared
  /\ UNCHANGED poc

\* printReport on the results so far (156-234)
Report ==
  /\ pc = "rules"
  /\ report' = printReport(results)
  /\ reported' = TRUE
  /\ pc' = "reported"
  /\ UNCHANGED <<files, idx, results, clock, locals, mch, loads, rejected, probes>>
  /\ UNCHANGED shared
  /\ UNCHANGED poc

\* a codec string is canonicalized
Canonicalize ==
  /\ pc = "rules" /\ results = <<>>
  /\ \E c \in CanonInputs : codec' = Str(Canonical(c))
  /\ pc' = "canonical"
  /\ UNCHANGED <<files, idx, results, clock, loadTime, format, width, height, fps, duration,
                 reported, report, mch, loads, rejected, probes>>
  /\ UNCHANGED shared
  /\ UNCHANGED poc

\* the canonical form is canonicalized again
CanonicalizeAgain ==
  /\ pc = "canonical"
  /\ codec' = Str(Canonical(codec.v))
  /\ pc' = "canonical2"
  /\ UNCHANGED <<files, idx, results, clock, loadTime, format, width, height, fps, duration,
                 reported, report, mch, loads, rejected, probes>>
  /\ UNCHANGED shared
  /\ UNCHANGED poc

RulesNext ==
  \/ Probe
  \/ Report
  \/ Canonicalize
  \/ CanonicalizeAgain

RulesSpec == RulesInit /\ [][RulesNext]_vars

(***************************************************************************)
(* The claims about test-codecs.js.                                        *)
(***************************************************************************)
\* main is inside testVideo
InProbe ==
  pc \in {"await_load", "await_settle", "await_codec", "await_format", "await_width",
          "await_height", "await_fps", "await_duration"}

\* main is past its for loop
LoopOver == pc \in {"await_quit", "done"} \/ (pc = "rejected" /\ started)

\* the codec read of finished probe i gave no value
CodecAbsent(i) == "video-codec" \in probes[i].rejected

\* C1: a probe of one file never fails outward: every finished testVideo has
\* pushed exactly one result, a rejected load or an absent codec gives a
\* result with success=false and a non-empty error message for that file, and
\* the loop goes on until every file has its result.
C1_ProbeNeverFailsOutward ==
  /\ Len(results) = Len(probes)
  /\ InProbe => Len(results) = idx - 1
  /\ LoopOver => Len(results) = Len(files)
  /\ \A i \in 1..Len(results) :
       (~probes[i].loadOk \/ CodecAbsent(i)) =>
         /\ results[i].success = FALSE
         /\ results[i].error # <<>>
         /\ results[i].filename = BaseName(files[i])

\* a run of two files: the first load was rejected with node-mpv's error
\* object, the second file's codec read failed, and the loop went to its end
C1_Witness ==
  /\ pc = "await_quit"
  /\ Len(results) = 2
  /\ ~probes[1].loadOk /\ results[1].error = JsonOf(PlainObj)
  /\ probes[2].loadOk /\ CodecAbsent(2) /\ ~results[2].success

\* C3: a probe whose codec read yields no value is marked failed, with the
\* message that the codec could not be detected, and carries no verdict; a
\* probe whose load resolved and whose codec is present is marked
\* success=true whatever the other five reads gave.
C3_SuccessIffCodecPresent ==
  \A i \in 1..Len(results) :
    /\ results[i].success = (probes[i].loadOk /\ ~CodecAbsent(i))
    /\ (probes[i].loadOk /\ CodecAbsent(i)) =>
         /\ results[i].error = NoCodecMessage
         /\ DOMAIN results[i] = {"filename", "success", "error"}

\* a success whose frame-rate read was rejected
C3_Witness ==
  \E i \in 1..Len(results) :
    /\ results[i].success /\ probes[i].rejected = {"container-fps"}
    /\ results[i].fps = NotAvailable

\* C4: probing is strictly sequential: while the probe of file N is under
\* way exactly N loads were issued and exactly N-1 probes have recorded their
\* result, so the load of file N+1 is never issued before file N is done.
C4_StrictlySequential ==
  /\ loads = idx
  /\ loads <= Len(results) + 1
  /\ InProbe => Len(results) = idx - 1
  /\ ~InProbe => Len(results) = loads

\* the load of the second file is in flight and the first file has its result
C4_Witness == pc = "await_load" /\ idx = 2 /\ loads = 2 /\ Len(results) = 1

\* C8 as stated: the run exits non-zero only if the player could not be
\* started.
C8_NonZeroOnlyOnStartFailure ==
  (exited /\ exitCode # 0) => cause = "start-failed"

\* C8 as amended: the run exits with code 0 on completion, however many files
\* failed (and when no video file is found); it exits with a non-zero code
\* when the directory does not exist, when the player could not be started,
\* and when a fault reaches main().catch or the uncaughtException handler;
\* after a start failure no file was loaded and no report was produced.
C8_ExitCodes ==
  exited =>
    /\ cause \in {"completed", "no-files", "no-directory", "start-failed", "fatal", "uncaught"}
    /\ (exitCode = 0) = (cause \in {"completed", "no-files"})
    /\ (exitCode # 0) = (exitCode = 1)
    /\ cause = "completed" => reported /\ Len(results) = Len(files)
    /\ cause = "start-failed" => loads = 0 /\ results = <<>> /\ ~reported /\ ~started

\* a completed run of two files, both failed, ended with code 0
C8_Witness ==
  /\ exited /\ exitCode = 0 /\ cause = "completed"
  /\ Len(results) = 2
  /\ \A i \in 1..2 : ~results[i].success

\* the unsupported-codec test of testVideo, tabulated over the codecs the
\* player answers with: some entry of the list, as written or with a dot
\* before its first digit, occurs in the lowercased codec
CodecMatches ==
  [c \in CodecReplies |->
     \E k \in 1..Len(VIDVUR_UNSUPPORTED_CODECS) :
       \/ Includes(ToLowerCase(c.v), VIDVUR_UNSUPPORTED_CODECS[k])
       \/ Includes(ToLowerCase(c.v), DotBeforeDigit(VIDVUR_UNSUPPORTED_CODECS[k]))]

\* the container test of testVideo, tabulated over the files of the
\* directory: the lowercased extension is in the unsupported-container list
ContainerMatches ==
  [p \in DirEntries |->
     \E k \in 1..Len(VIDVUR_CONVERSION_FORMATS) :
       VIDVUR_CONVERSION_FORMATS[k] = ToLowerCase(ExtName(p))]

\* C9: for every successfully probed file, wouldConvert is true exactly when
\* some entry of the unsupported-codec list (as written or with a dot before
\* its first digit) occurs in the lowercased codec or the file's lowercased
\* extension is in the unsupported-container list; of the model's inputs that
\* is codec "H.263" or file b.MOV, and h264 in a.mp4 gives false and no reason.
C9_WouldConvertIffMatch ==
  \A i \in 1..Len(results) :
    results[i].success =>
      /\ results[i].wouldConvert = (CodecMatches[results[i].codec] \/ ContainerMatches[files[i]])
      /\ results[i].wouldConvert =
           (results[i].codec = Str(<<"H", ".", "2", "6", "3">>) \/ files[i] = PathB)
      /\ (results[i].codec = Str(<<"h", "2", "6", "4">>) /\ files[i] = PathA) =>
           (results[i].wouldConvert = FALSE /\ results[i].reason = Null)

\* h264 in a.mp4 needs no conversion, h264 in b.MOV does
C9_Witness ==
  /\ Len(results) = 2
  /\ files = <<PathA, PathB>>
  /\ results[1].success /\ results[1].codec = Str(<<"h", "2", "6", "4">>)
  /\ ~results[1].wouldConvert /\ results[1].reason = Null
  /\ results[2].success /\ results[2].codec = Str(<<"h", "2", "6", "4">>)
  /\ results[2].wouldConvert

\* C10: the reason has codec priority: 'Unsupported codec' whenever the codec
\* matched, also when the container matched too; 'Container format requires
\* conversion' exactly when only the container matched; null exactly when
\* wouldConvert is false.
C10_ReasonCodecFirst ==
  \A i \in 1..Len(results) :
    results[i].success =>
      LET codecMatched == CodecMatches[results[i].codec]
          containerMatched == ContainerMatches[files[i]]
      IN /\ codecMatched => results[i].reason = Str(ReasonCodec)
         /\ (results[i].reason = Str(ReasonContainer)) = (~codecMatched /\ containerMatched)
         /\ (results[i].reason = Null) = (~results[i].wouldConvert)

\* H.263 in b.MOV: both matched and the reason is the codec
C10_Witness ==
  \E i \in 1..Len(results) :
    /\ results[i].success
    /\ files[i] = PathB
    /\ results[i].codec = Str(<<"H", ".", "2", "6", "3">>)
    /\ results[i].reason = Str(ReasonCodec)

(***************************************************************************)
(* The claims about the player session, in test-codecs.js and in poc.js.   *)
(***************************************************************************)
\* the requests to the player that poc.js awaits, quit and start apart
PocRequests ==
  {"await_load", "await_info", "await_cmd", "await_step", "await_timepos", "await_set_a",
   "await_set_b", "await_detail"}

\* how many load, getProperty, setProperty and command requests are in flight
InFlight ==
  Cardinality({t \in Tasks : tasks[t].pc \in PocRequests})
    + (IF InProbe /\ pc # "await_settle" THEN 1 ELSE 0)

\* nothing went wrong in the run but, possibly, calls of quit
OnlyQuitsFailed == <<faultsLeft, crashesLeft>> \in Budgets

\* C2 as stated: when one of the reads of a video's properties is rejected,
\* every one of the six properties has still been asked for and the
\* video's info is returned, without that field only.
C2_OtherPropertiesStillRead ==
  lastInfo.rejected # {} =>
    /\ lastInfo.asked = {InfoOrder[n] : n \in 1..Len(InfoOrder)}
    /\ lastInfo.returned # Null

\* C5 as stated: at no time are two load, getProperty, setProperty or command
\* requests in flight on the player.
C5_OneRequestInFlight == InFlight <= 1

\* C6: whenever the process has ended in a run in which the player was
\* started, quit was called on it: on completion, on a fault caught by
\* main().catch, on an uncaught exception and on the quit keys; no exit of
\* another kind happens once the player is started.
C6_QuitOnEveryExit ==
  (exited /\ started) =>
    /\ quitCalls >= 1
    /\ cause \in {"completed", "fatal", "uncaught", "quit"}

\* a run of test-codecs.js that probed its files, failed after the loop and
\* left through main().catch, which called quit once
C6_Witness ==
  /\ exited /\ started /\ cause = "fatal"
  /\ Len(results) = Len(files) /\ Len(files) > 0
  /\ quitCalls = 1

\* C7 as stated: a call of quit after the first one does not fault and does
\* not change the outcome: a run in which nothing but a later quit was
\* rejected ends with code 0.
C7_SecondQuitHarmless ==
  (exited /\ started /\ OnlyQuitsFailed /\ 1 \notin quitRejected) => exitCode = 0

(***************************************************************************)
(* The claims about the rule set and the report.                           *)
(***************************************************************************)
H263 == <<"h", "2", "6", "3">>
HDot263 == <<"h", ".", "2", "6", "3">>

\* C11: a probed codec that is "h263" or "h.263" in any letter case matches
\* the rule-set entry "h263": its result is a success that would be
\* converted, with the reason 'Unsupported codec', whatever the container.
C11_BothSpellingsMatch ==
  \A i \in 1..Len(results) :
    (probes[i].loadOk /\ ~CodecAbsent(i)) =>
      LET c == ToLowerCase(results[i].codec.v)
      IN (c = H263 \/ c = HDot263) =>
           /\ results[i].success
           /\ results[i].wouldConvert
           /\ results[i].reason = Str(ReasonCodec)

\* two files in an .mp4 container, one probed as "H263" and one as "h.263",
\* both classified as unsupported codec
C11_Witness ==
  /\ Len(results) = 2
  /\ files = <<PathA, PathA>>
  /\ results[1].success /\ results[1].codec = Str(<<"H", "2", "6", "3">>)
  /\ results[1].reason = Str(ReasonCodec)
  /\ results[2].success /\ results[2].codec = Str(HDot263)
  /\ results[2].reason = Str(ReasonCodec)

\* C12 as stated: canonicalizing the canonical form of a codec string gives
\* the same string again.
C12_CanonicalIdempotent == [][pc = "canonical" => codec' = codec]_vars

\* C13: the report's counts are a fold of the results: total is the number
\* of results, succeeded and failed partition it, and the conversions-avoided
\* count is the number of succeeded results with wouldConvert true, so it
\* never exceeds the succeeded count.
C13_CountsAreAFold ==
  reported =>
    /\ report.total = Len(results)
    /\ report.successful = Cardinality({i \in 1..Len(results) : results[i].success})
    /\ report.failed = Cardinality({i \in 1..Len(results) : ~results[i].success})
    /\ report.successful + report.failed = report.total
    /\ report.saved =
         Cardinality({i \in 1..Len(results) : results[i].success /\ results[i].wouldConvert})
    /\ report.wouldConvert = report.saved
    /\ report.saved <= report.successful

\* a report of one failed file and one succeeded file that would be converted
C13_Witness ==
  /\ reported
  /\ report.total = 2 /\ report.failed = 1
  /\ report.successful = 1 /\ report.saved = 1

\* the indices of the succeeded results, and the sum of their load times
Succeeded == {i \in 1..Len(results) : results[i].success}

RECURSIVE LoadTimeOver(_)
LoadTimeOver(I) ==
  IF I = {} THEN 0
  ELSE LET i == CHOOSE j \in I : TRUE IN results[i].loadTime + LoadTimeOver(I \ {i})

\* h hundredths is the quotient num / den to the nearest hundredth
NearestHundredth(h, num, den) ==
  /\ 2 * (100 * num - h * den) <= den
  /\ 2 * (h * den - 100 * num) <= den

\* C14 as stated: the average load time is the mean of loadTime over the
\* succeeded results, and it is 0 when no result succeeded.
C14_AverageZeroWhenNoneSucceeded ==
  (reported /\ Succeeded = {}) =>
    /\ report.performance # Null
    /\ report.performance.avgLoadTime = <<"0", ".", "0", "0">>

\* C14 as amended: when some result succeeded, the report gives the mean of
\* loadTime over the succeeded results only, to two decimals; when none
\* succeeded (the empty list included) it gives no average at all, and the
\* sum is never divided by a count of 0.
C14_AverageOverSucceeded ==
  reported =>
    IF Succeeded = {}
      THEN report.performance = Null
      ELSE /\ report.performance # Null
           /\ \E h \in 0..(100 * LoadTimeOver(Succeeded)) :
                /\ NearestHundredth(h, LoadTimeOver(Succeeded), Cardinality(Succeeded))
                /\ report.performance.avgLoadTime = Hundredths(h)

\* two files loaded in 0 ms and 7 ms: the average is 3.50
C14_Witness ==
  /\ reported
  /\ \E i, j \in Succeeded : results[i].loadTime = 0 /\ results[j].loadTime = 7
  /\ Cardinality(Succeeded) = 2
  /\ report.performance.avgLoadTime = <<"3", ".", "5", "0">>

\* C15 as stated: the per-codec breakdown counts every succeeded result once
\* under its canonicalized codec and no failed result: the succeeded results
\* whose codecs canonicalize to the same identifier share one entry, whose
\* count is their number, and the counts sum to the succeeded count.
C15_BreakdownByCanonicalCodec ==
  reported =>
    \A i \in Succeeded :
      LET same == {j \in Succeeded :
                     Canonical(results[j].codec.v) = Canonical(results[i].codec.v)}
          entries == {k \in 1..Len(report.codecs) :
                        Canonical(report.codecs[k].codec) = Canonical(results[i].codec.v)}
      IN /\ Cardinality(entries) = 1
         /\ \A k \in entries : report.codecs[k].count = Cardinality(same)

\* the orders in which n results can come
Orders(n) == {p \in [1..n -> 1..n] : \A i, j \in 1..n : p[i] = p[j] => i = j}

\* the quantities of a report, the per-codec counts as a mapping
Quantities(rep) ==
  [total |-> rep.total,
   successful |-> rep.successful,
   failed |-> rep.failed,
   conversions |-> rep.saved,
   performance |-> rep.performance,
   codecs |-> {<<rep.codecs[k].codec, rep.codecs[k].count>> : k \in 1..Len(rep.codecs)}]

\* C16: the report does not depend on the order of the results: printReport
\* of every permutation of the results gives the same total, succeeded,
\* failed and conversions counts, the same average load time and the same
\* per-codec counts as the report that was printed.
C16_OrderIndependent ==
  reported =>
    \A p \in Orders(Len(results)) :
      Quantities(printReport([i \in 1..Len(results) |-> results[p[i]]])) = Quantities(report)

\* a report of two different succeeded results, of different codecs and
\* load times
C16_Witness ==
  /\ reported /\ Len(results) = 2
  /\ results[1].success /\ results[2].success
  /\ results[1].codec # results[2].codec
  /\ results[1].loadTime # results[2].loadTime
  /\ Len(report.codecs) = 2

(***************************************************************************)
(* The claims about the steps of a probe and the values it reads.          *)
(***************************************************************************)
\* C17 as stated: the elapsed time is computed after the settle delay and
\* the property reads, so the recorded load time covers them.
C17_LoadTimeCoversSettleAndReads ==
  \A i \in 1..Len(results) : results[i].success => results[i].loadTime >= SettleDelay

\* C17 as amended: within a probe the start time is recorded, the file is
\* loaded and the elapsed time is computed at once; then comes the settle
\* delay, then the reads of codec, container, width, height, frame rate and
\* duration in this order; the recorded load time covers the load only.
C17_LoadTimeCoversLoadOnly ==
  /\ \A i \in 1..Len(results) : results[i].success => results[i].loadTime \in LoadDurations
  /\ pc = "await_load" => clock = 0
  /\ pc = "await_settle" => loadTime = clock
  /\ pc \in {"await_codec", "await_format", "await_width", "await_height", "await_fps",
             "await_duration"} => clock = loadTime + SettleDelay
  /\ pc \in {"await_settle", "await_codec"} => codec = Undefined
  /\ pc = "await_format" => codec # Undefined
  /\ pc \in {"await_settle", "await_codec", "await_format"} => format = Undefined
  /\ pc = "await_width" => format # Undefined
  /\ pc \in {"await_settle", "await_codec", "await_format", "await_width"} => width = Undefined
  /\ pc = "await_height" => width # Undefined
  /\ pc \in {"await_settle", "await_codec", "await_format", "await_width", "await_height"} =>
       height = Undefined
  /\ pc = "await_fps" => height # Undefined
  /\ InProbe /\ pc # "await_duration" => fps = Undefined
  /\ pc = "await_duration" => fps # Undefined
  /\ InProbe => duration = Undefined

\* the duration of a file that took 7 ms to load is being read, 207 ms after
\* the start of the probe
C17_Witness ==
  /\ pc = "await_duration" /\ loadTime = 7 /\ clock = 7 + SettleDelay
  /\ codec # Undefined /\ fps # Undefined

\* C18 as stated: the frame rate falls back from container-fps to
\* video-params/fps, so a recorded result has no frame rate only when the
\* reads of both properties failed.
C18_FrameRateFallsBack ==
  \A i \in 1..Len(results) :
    (results[i].success /\ results[i].fps = NotAvailable) =>
      {"container-fps", "video-params/fps"} \subseteq probes[i].rejected

\* C19 as stated: no descriptor field (width, height, frame rate, duration)
\* of the current-video info holds 0 because its read returned nothing.  The
\* player of the model never answers 0, so a 0 stands for a missing value.
C19_AbsentIsNotZero ==
  currentVideo # Null =>
    /\ currentVideo.width # Num(0)
    /\ currentVideo.height # Num(0)
    /\ currentVideo.fps # Num(0)
    /\ currentVideo.duration # Num(0)

\* C20 as stated: every request of a probe returns or fails within a bounded
\* wait, so a run whose player was started prints the report in the end (or
\* ends for another reason), even if the player stops answering a request.
C20_RunReachesReport == started ~> (reported \/ exited)

(***************************************************************************)
(* claims about interrupts, the keys of the interactive player and the     *)
(* order of a batch run                                                    *)
(***************************************************************************)
\* C21 as stated: when a user interrupt ends a run in which the player was
\* started, quit was called on the player before the process ended.
C21_InterruptQuitsPlayer ==
  (exited /\ started /\ cause = "interrupted") => quitCalls >= 1

\* C22: a failed probe is never classified: a result with success = false has
\* no wouldConvert field and no reason field, and the report counts it among
\* the failed only: the would-convert group is exactly the succeeded results
\* whose verdict is true, and the no-conversion-needed group holds succeeded
\* results only.
C22_FailedNeverClassified ==
  /\ \A i \in 1..Len(results) :
       ~results[i].success =>
         /\ "wouldConvert" \notin DOMAIN results[i]
         /\ "reason" \notin DOMAIN results[i]
  /\ reported =>
       /\ report.failed = Len(results) - Cardinality(Succeeded)
       /\ report.wouldConvert = Cardinality({i \in Succeeded : results[i].wouldConvert})
       /\ Len(report.converted) = report.wouldConvert
       /\ report.noConversion <= Cardinality(Succeeded)

\* a report over one failed probe and one succeeded probe of a file that
\* would be converted
C22_Witness ==
  /\ reported
  /\ Len(results) = 2
  /\ ~results[1].success /\ results[2].success /\ results[2].wouldConvert
  /\ report.failed = 1 /\ report.wouldConvert = 1

\* the keypress handler is registered and a key can be pressed
CanPress == pc = "off" /\ ~exited /\ listening /\ keys < MaxKeys

\* C23 as stated: in every state in which a key can be pressed, whether or
\* not a video is loaded, the handler run for 'q' sends quit to the player.
C23_QAlwaysQuits ==
  CanPress => ENABLED (KeypressOf("q") /\ quitCalls' = quitCalls + 1)

\* invocation t of the keypress handler got its time position in this step
GotTimePos(t) ==
  /\ tasks[t].pc = "await_timepos"
  /\ tasks'[t].pc # "await_timepos"
  /\ ueh' = ueh

\* what is written to the player in this step
Written ==
  IF Len(writes') > Len(writes) THEN SubSeq(writes', Len(writes) + 1, Len(writes')) ELSE <<>>

\* C24: 's' stores the time position it read in loopStart and 'f' in loopEnd,
\* leaving the other point alone; the handler then writes ab-loop-a (with
\* loopStart), and after it ab-loop-b, exactly when both points are non-null
\* once the point is stored, and writes nothing otherwise; 'b' sets both
\* points to null and writes 'no' to ab-loop-a and then to ab-loop-b; nothing
\* else writes to the player.
C24_LoopKeys ==
  [][/\ \A t \in Tasks :
          GotTimePos(t) =>
            /\ tasks[t].key = "s" => (loopStart' # Null /\ loopEnd' = loopEnd)
            /\ tasks[t].key = "f" => (loopEnd' # Null /\ loopStart' = loopStart)
            /\ IF loopStart' # Null /\ loopEnd' # Null
                 THEN /\ Written = <<[name |-> "ab-loop-a", value |-> loopStart']>>
                      /\ tasks'[t].pc = "await_set_a"
                 ELSE /\ Written = <<>>
                      /\ tasks'[t].pc = "done"
     /\ \A t \in Tasks :
          (tasks[t].pc = "await_set_a" /\ tasks'[t].pc # "await_set_a" /\ ueh' = ueh) =>
            /\ tasks'[t].pc = "await_set_b"
            /\ Len(Written) = 1 /\ Written[1].name = "ab-loop-b"
            /\ tasks[t].key = "b" => Written[1].value = No
            /\ tasks[t].key # "b" => Written[1].value = loopEnd
     /\ (keys' = keys + 1 /\ tasks'[keys'].key = "b") =>
          /\ loopStart' = Null /\ loopEnd' = Null
          /\ Written = <<[name |-> "ab-loop-a", value |-> No]>>
     /\ Written # <<>> =>
          \/ \E t \in Tasks : GotTimePos(t)
          \/ \E t \in Tasks : tasks[t].pc = "await_set_a" /\ tasks'[t].pc = "await_set_b"
          \/ keys' = keys + 1 /\ tasks'[keys'].key = "b"
     /\ loopStart' # loopStart \/ loopEnd' # loopEnd =>
          \/ \E t \in Tasks : GotTimePos(t)
          \/ keys' = keys + 1 /\ tasks'[keys'].key = "b"]_vars

\* 's' and then 'f' were pressed on a loaded video: both points are set and
\* the loop was written, ab-loop-a before ab-loop-b
C24_Witness ==
  /\ loopStart # Null /\ loopEnd # Null
  /\ writes = <<[name |-> "ab-loop-a", value |-> loopStart],
                [name |-> "ab-loop-b", value |-> loopEnd]>>
  /\ \E t \in Tasks : tasks[t].key = "f" /\ tasks[t].pc = "await_set_b"

\* main awaits one of testVideo's six property reads
ReadStates ==
  {"await_codec", "await_format", "await_width", "await_height", "await_fps", "await_duration"}

\* C25 as stated: the player is created once; every load and every property
\* read is issued when start has succeeded and quit has not been called; the
\* report is printed only when every file has its result, and not after quit
\* was called; main calls quit only once the report is printed.
C25_OneSessionInOrder ==
  [][/\ player' # player => player = "null"
     /\ loads' > loads => (started' /\ quitCalls' = 0)
     /\ (pc' \in ReadStates /\ pc' # pc) => (started /\ quitCalls' = 0)
     /\ (reported' /\ ~reported) => (Len(results') = Len(files') /\ quitCalls = 0)
     /\ (pc' = "await_quit" /\ pc # "await_quit") => reported']_vars

\* the fields of the two kinds of record testVideo pushes
SuccessFields ==
  {"filename", "codec", "format", "resolution", "fps", "duration", "loadTime", "success",
   "wouldConvert", "reason"}
FailureFields == {"filename", "success", "error"}

\* C26: once the report is printed the results list has one entry per
\* discovered file, in the order of enumeration; every entry is a success
\* record (with codec, load time and verdict, without error) or a failure
\* record (with error message, without codec and verdict) when it is
\* appended; and no step changes or removes an entry that was appended.
C26_OneImmutableEntryPerFile ==
  [][/\ reported' =>
          /\ Len(results') = Len(files')
          /\ \A i \in 1..Len(files') : results'[i].filename = BaseName(files'[i])
     /\ \A i \in (Len(results) + 1)..Len(results') :
          IF results'[i].success
            THEN /\ DOMAIN results'[i] = SuccessFields
                 /\ Truthy(results'[i].codec)
                 /\ results'[i].loadTime \in Nat
                 /\ results'[i].wouldConvert \in BOOLEAN
            ELSE /\ DOMAIN results'[i] = FailureFields
                 /\ results'[i].error # <<>>
     /\ Len(results') >= Len(results)
     /\ \A i \in 1..Len(results) : results'[i] = results[i]]_vars

\* a finished run over two files, the first probed with success, the second
\* failed
C26_Witness ==
  /\ reported /\ Len(files) = 2 /\ Len(results) = 2
  /\ results[1].success /\ ~results[2].success
  /\ results[1].filename # results[2].filename

\* C27 as stated: whatever the interleaving of 's', 'f' and 'b' handlers,
\* every value written to ab-loop-a or ab-loop-b is 'no' or a non-null time
\* position.
C27_NeverWritesNull ==
  \A i \in 1..Len(writes) :
    /\ writes[i].name \in {"ab-loop-a", "ab-loop-b"}
    /\ writes[i].value # Null

(***************************************************************************)
(* claims about loadVideo, the frame-step timings and the report's ratios  *)
(***************************************************************************)
\* getVideoInfo returns in this step to the loadVideo that awaits it, which
\* then returns true
LoadVideoSucceeds ==
  \E t \in Tasks : tasks[t].pc = "await_info" /\ tasks'[t].pc = "done"

\* C28 as stated: currentVideo changes only to the description of a file
\* whose load and video-info query both succeeded, and loadVideo returns true
\* only when currentVideo describes the newly loaded file.
C28_CurrentVideoOnlyOnSuccess ==
  [][/\ currentVideo' # currentVideo =>
          (currentVideo' # Null /\ lastInfo'.rejected = {} /\ LoadVideoSucceeds)
     /\ LoadVideoSucceeds =>
          (currentVideo' # Null /\ currentVideo' = lastInfo'.returned)]_vars

\* the frameStep of invocation t returns in this step
StepDone(t) == tasks[t].pc = "await_step" /\ tasks'[t].pc = "done"

\* C29: a frameStep whose command succeeded appends exactly one sample to the
\* array of its own direction and leaves the other array alone; one whose
\* command failed leaves both alone; no other step makes an array grow or
\* change; an array shrinks only in a keypress step, which empties both; and
\* the average of an empty array is 0.
C29_StepTimings ==
  [][/\ \A t \in Tasks :
          StepDone(t) =>
            IF faultsLeft' = faultsLeft
              THEN IF tasks[t].key = "]"
                     THEN /\ \E e \in StepDurations :
                               forwardStepTimes' = Append(forwardStepTimes, e)
                          /\ backwardStepTimes' = backwardStepTimes
                     ELSE /\ \E e \in StepDurations :
                               backwardStepTimes' = Append(backwardStepTimes, e)
                          /\ forwardStepTimes' = forwardStepTimes
              ELSE /\ forwardStepTimes' = forwardStepTimes
                   /\ backwardStepTimes' = backwardStepTimes
     /\ (forwardStepTimes' # forwardStepTimes \/ backwardStepTimes' # backwardStepTimes) =>
          \/ \E t \in Tasks : StepDone(t)
          \/ /\ keys' = keys + 1
             /\ forwardStepTimes' = <<>> /\ backwardStepTimes' = <<>>
     /\ forwardStepTimes' = <<>> => avg(forwardStepTimes').num = 0
     /\ backwardStepTimes' = <<>> => avg(backwardStepTimes').num = 0]_vars

\* a step forward and a step back were timed, and the handler of the step
\* forward saw its command succeed
C29_Witness ==
  /\ Len(forwardStepTimes) = 1 /\ Len(backwardStepTimes) = 1
  /\ avg(forwardStepTimes) = [num |-> 4, den |-> 1]
  /\ avg(backwardStepTimes) = [num |-> 0, den |-> 1]

\* C30 as stated: printReport never divides by zero: it gives an average
\* only when a result succeeded, and it prints no speed-improvement ratio
\* that is the quotient of a division by an average load time of 0.
C30_NoDivisionByZero ==
  reported =>
    /\ report.performance # Null => Succeeded # {}
    /\ report.performance # Null =>
         /\ report.performance.low # Infinity
         /\ report.performance.high # Infinity

====
